---- MODULE Spec2Model ----
(***************************************************************************)
(* Name / fortune generation engine of naeilum (src/app.py).               *)
(*                                                                         *)
(* Strings the code inspects character by character (first_name,           *)
(* last_name, Korean names) are sequences of one-character strings.        *)
(* Hangul characters are written "k:<sound>", hanja "h:<sound>".           *)
(* Every random.* call is a nondeterministic choice over its outcomes.     *)
(* A call of generate_korean_names / generate_fortune is a frame owned by  *)
(* a request thread; the frame's locals are the per-thread variables.      *)
(***************************************************************************)
EXTENDS Integers, Sequences, FiniteSets, TLC

VARIABLES
    SYLLABLES_DATA,      \* list of syllable dicts (src/app.py:57)
    FORTUNES_DATA,       \* dict tag -> list of messages (src/app.py:58)
    SURNAMES_DATA,       \* dict initial / "DEFAULT" -> list of surname dicts (src/app.py:59)
    pc,                  \* per thread: position in its call
    args,                \* per thread: the arguments of the running call
    surname,             \* per thread: local `surname` of generate_korean_names
    gs,                  \* per thread: locals of the finished get_korean_surname frame
    candidates,          \* per thread: local `candidates`
    todo,                \* per thread: iterations left of `for _ in range(3 - len(candidates))`
    sample,              \* per thread: the tags drawn by random.sample for this slot
    chosen,              \* per thread: tags of the sample not yet visited by the inner for
    selected_syllables,  \* per thread: local `selected_syllables`
    result               \* per thread: what the call returned or raised

vars == <<SYLLABLES_DATA, FORTUNES_DATA, SURNAMES_DATA, pc, args, surname, gs,
          candidates, todo, sample, chosen, selected_syllables, result>>

tables == <<SYLLABLES_DATA, FORTUNES_DATA, SURNAMES_DATA>>

-----------------------------------------------------------------------------
(* Bounds and program constants *)

MaxTags == 2            \* longest tag list a caller supplies

NumCandidates == 3      \* range(3 - len(candidates)), candidates[:3]
NumSyllables == 2       \* while len(selected_syllables) < 2, selected_syllables[:2]
SampleSize == 2         \* random.sample(tags, min(2, len(tags)))
DefaultWeight == 1      \* s.get("weight", 1)
DefaultCommon == 0      \* s.get('common', 0)

Threads == {"t1", "t2"}
MainThread == {"t1"}

-----------------------------------------------------------------------------
(* Python primitives *)

EmptyDict == [k \in {} |-> <<>>]

LowerAlpha == <<"a","b","c","d","e","f","g","h","i","j","k","l","m",
                "n","o","p","q","r","s","t","u","v","w","x","y","z">>
UpperAlpha == <<"A","B","C","D","E","F","G","H","I","J","K","L","M",
                "N","O","P","Q","R","S","T","U","V","W","X","Y","Z">>

\* str.upper() on one character
UpperChar(c) ==
    IF \E i \in 1..Len(LowerAlpha) : LowerAlpha[i] = c
    THEN UpperAlpha[CHOOSE i \in 1..Len(LowerAlpha) : LowerAlpha[i] = c]
    ELSE c

\* str.upper()
upper(s) == [i \in 1..Len(s) |-> UpperChar(s[i])]

\* dict.get(key, default)
Get(d, key, default) == IF key \in DOMAIN d THEN d[key] ELSE default

\* the elements of a list
Elems(s) == {s[i] : i \in 1..Len(s)}

\* list[:n]
Prefix(s, n) == SubSeq(s, 1, IF Len(s) < n THEN Len(s) ELSE n)

Min(a, b) == IF a < b THEN a ELSE b

-----------------------------------------------------------------------------
(* Reference tables: what load_json_data can hand to the engine *)

WILSON == <<"W","I","L","S","O","N">>
SMITH == <<"S","M","I","T","H">>

Syl(s, t, c) == [syllable |-> <<"k:" \o s>>, hanja |-> "h:" \o s,
                 meaning |-> "m:" \o s, tag |-> t, common |-> c]

\* one tag, a non-common entry listed before the common one
SylOneTag == << Syl("hyun", "wisdom", 0), Syl("ji", "wisdom", 1) >>

\* two tags; the entry of "bright" carries no `common` field at all
SylTwoTags == << Syl("ji", "wisdom", 1),
                 [syllable |-> <<"k:myung">>, hanja |-> "h:myung",
                  meaning |-> "m:myung", tag |-> "bright"] >>

\* a failed load: load_json_data returns {} and iterating it yields nothing
SylEmpty == << >>

SylTables == {SylOneTag, SylTwoTags, SylEmpty}

Sur(k, w) == [korean |-> <<"k:" \o k>>, hanja |-> "h:" \o k, weight |-> w]
SurNoWeight(k) == [korean |-> <<"k:" \o k>>, hanja |-> "h:" \o k]

SurFull == ("K" :> << Sur("kim", 2), Sur("kang", 1) >>)
        @@ ("A" :> << SurNoWeight("ahn") >>)
        @@ ("DEFAULT" :> << SurNoWeight("lee"), Sur("park", 2) >>)

\* an initial whose list is empty, beside a usable DEFAULT
SurEmptyInitial == ("A" :> << >>) @@ ("DEFAULT" :> << Sur("lee", 1) >>)

\* DEFAULT present but empty
SurEmptyDefault == ("K" :> << Sur("kim", 1) >>) @@ ("DEFAULT" :> << >>)

SurTables == {SurFull, SurEmptyInitial, SurEmptyDefault, EmptyDict}

FortFull == ("wisdom" :> << "f:w1", "f:w2" >>) @@ ("bright" :> << "f:b1" >>)
FortEmptyList == ("wisdom" :> << >>) @@ ("bright" :> << "f:b1" >>)

FortTables == {FortFull, FortEmptyList, EmptyDict}

\* Each table varies against fully loaded other tables.
TableConfigs ==
    {<<sy, FortFull, SurFull>> : sy \in SylTables}
    \cup {<<SylTwoTags, FortFull, su>> : su \in SurTables}
    \cup {<<SylTwoTags, fo, SurFull>> : fo \in FortTables}

-----------------------------------------------------------------------------
(* Inputs *)

FirstNames == { WILSON, <<"W","i","l","s","o","n">>, <<"W","i","l","l">> }

LastNames == { << >>, SMITH, <<"s","m","i","t","h">>, <<"K","i","m">>,
               <<"a","m","e","s">>, <<"Z","e","d">> }

\* a tag of the pool and a tag absent from it; "bright" arrives with the default tags
TagNames == {"wisdom", "ghost"}

TagLists == UNION {[1..n -> TagNames] : n \in 0..MaxTags}

\* options: None / {} (no "tags" key) or {"tags": [...]}
OptionDicts == {EmptyDict} \cup {[tags |-> tl] : tl \in TagLists}

None == "None"
Dates == {None, "2024/01/01"}
Today == "2026/11/04"       \* datetime.now().strftime("%Y/%m/%d")

-----------------------------------------------------------------------------
(* get_korean_surname (src/app.py:84-108) *)

NoSurname == [korean |-> << >>, hanja |-> ""]
NoFrame == [path |-> "none", rand |-> -1, options |-> << >>, found |-> FALSE]

\* the hard-coded default of line 87
FallbackDefault == << [korean |-> <<"k:lee">>, hanja |-> "h:lee"] >>

\* the fixed entry of line 93
SongEntry == [korean |-> <<"k:song">>, hanja |-> "h:song"]

\* s.get("weight", 1)
Weight(s) == Get(s, "weight", DefaultWeight)

\* `cumulative` after the walk has visited entries 1..i
RECURSIVE Cumulative(_, _)
Cumulative(options, i) ==
    IF i = 0 THEN 0 ELSE Cumulative(options, i - 1) + Weight(options[i])

\* sum(weights)
TotalWeight(options) == Cumulative(options, Len(options))

\* what `return surname_options[0]` yields when the walk returned nothing
WalkFallbackLast(options) == Len(options)
WalkFallback(options) == 1

\* lines 102-108: index of the entry returned for the draw `rand`;
\* 0 stands for IndexError (surname_options[0] of an empty list)
WeightedIndex(options, rand) ==
    LET hits == {i \in 1..Len(options) : rand <= Cumulative(options, i)}
    IN  IF hits # {} THEN CHOOSE i \in hits : \A j \in hits : i <= j
        ELSE IF Len(options) = 0 THEN 0
        ELSE WalkFallback(options)

\* The draws of random.uniform(0, total_weight).  `rand` is compared only
\* with the cumulative sums, so a real draw in (k-1, k] acts as k.  The
\* weights are JSON numbers: with float weights sum(weights) (compensated
\* summation from CPython 3.12 on) can exceed the running `cumulative` of
\* line 104 by more than one rounding step (50 weights of 0.1: 5.0 against
\* 4.999999999999998), so a draw can lie above the last cumulative sum;
\* total + 1 stands for such a draw.
UniformDraws(total) == 0..(total + 1)

Returned(entry, path, rand, options) ==
    [exc |-> "", ret |-> entry,
     frame |-> [path |-> path, rand |-> rand, options |-> options, found |-> TRUE]]

Raised(exc, path, options, found) ==
    [exc |-> exc, ret |-> NoSurname,
     frame |-> [path |-> path, rand |-> -1, options |-> options, found |-> found]]

\* lines 92-93 compared without .upper()
IsSmithExact(last_name) == last_name = SMITH
IsSmith(last_name) == upper(last_name) = SMITH

\* line 95: SURNAMES_DATA.get(initial, SURNAMES_DATA.get("DEFAULT"));
\* found = FALSE stands for None
ResolveOptions(table, initial) ==
    IF initial \in DOMAIN table THEN [found |-> TRUE, list |-> table[initial]]
    ELSE IF "DEFAULT" \in DOMAIN table THEN [found |-> TRUE, list |-> table["DEFAULT"]]
    ELSE [found |-> FALSE, list |-> << >>]

\* every way one call of get_korean_surname(last_name) can end
get_korean_surname(table, last_name) ==
    IF last_name = << >>
    THEN LET options == Get(table, "DEFAULT", FallbackDefault)
         IN  IF options = << >>
             THEN {Raised("IndexError", "empty", options, TRUE)}   \* random.choice([])
             ELSE {Returned(options[i], "empty", -1, options) : i \in 1..Len(options)}
    ELSE IF IsSmith(last_name)
    THEN {Returned(SongEntry, "smith", -1, << >>)}
    ELSE LET r == ResolveOptions(table, UpperChar(last_name[1]))
             options == r.list
         IN  IF ~r.found
             THEN {Raised("TypeError", "weighted", << >>, FALSE)}  \* iterating None
             ELSE {IF WeightedIndex(options, rand) = 0
                   THEN Raised("IndexError", "weighted", options, TRUE)
                   ELSE Returned(options[WeightedIndex(options, rand)],
                                 IF rand <= TotalWeight(options) THEN "weighted"
                                 ELSE "overshoot", rand, options)
                   : rand \in UniformDraws(TotalWeight(options))}

-----------------------------------------------------------------------------
(* generate_korean_names helpers (src/app.py:110-252) *)

\* lines 143-148: group the pool by tag, pool order kept
syllables_by_tag(data) ==
    [g \in {data[i].tag : i \in 1..Len(data)} |->
        SelectSeq(data, LAMBDA s : s.tag = g)]

\* random.sample(tags, min(2, len(tags))): tags at distinct positions, any order
Samples(tags) ==
    LET k == Min(SampleSize, Len(tags))
        picks == {p \in [1..k -> 1..Len(tags)] :
                     \A i, j \in 1..k : i # j => p[i] # p[j]}
    IN  {[i \in 1..k |-> tags[p[i]]] : p \in picks}

\* line 159
IsCommon(s) == Get(s, "common", DefaultCommon) = 1
CommonOf(options) == SelectSeq(options, IsCommon)

\* lines 157-163 without the preference for common syllables
TagChoicesAny(options) == Elems(options)

\* lines 157-163: the entries random.choice may return for a chosen tag
TagChoices(options) ==
    IF CommonOf(options) # << >> THEN Elems(CommonOf(options)) ELSE Elems(options)

\* line 122
IsPinnedExact(first_name, last_name) == first_name = WILSON /\ last_name = SMITH
IsPinned(first_name, last_name) ==
    upper(first_name) = WILSON /\ upper(last_name) = SMITH

\* get_surname_meaning (lines 232-245)
get_surname_meaning(hanja) ==
    CASE hanja = "h:song" -> "Pine tree"
      [] hanja = "h:lee"  -> "Plum tree"
      [] hanja = "h:kim"  -> "Gold"
      [] hanja = "h:park" -> "Simple wood"
      [] hanja = "h:kang" -> "Ginger"
      [] OTHER -> "Noble family lineage"

\* romanize_korean_name (lines 198-230), the maps cut to the characters used
RomanSurname(c) ==
    CASE c = "k:song" -> "Song" [] c = "k:lee" -> "Lee" [] c = "k:kim" -> "Kim"
      [] c = "k:park" -> "Park" [] c = "k:kang" -> "Kang" [] c = "k:ahn" -> "Ahn"
      [] OTHER -> c
RomanGiven(c) ==
    CASE c = "k:wol" -> "Wil" [] c = "k:seon" -> "Seon" [] c = "k:myung" -> "Myung"
      [] c = "k:ji" -> "Ji" [] c = "k:hyun" -> "Hyun"
      [] OTHER -> c
romanize_korean_name(sur, given_name) ==
    <<IF Len(sur) = 1 THEN RomanSurname(sur[1]) ELSE "?">>
        \o [i \in 1..Len(given_name) |-> RomanGiven(given_name[i])]

\* generate_name_summary (lines 247-252)
generate_name_summary(syllables) ==
    IF Len(syllables) = 2
    THEN <<syllables[1].meaning, "hago", syllables[2].meaning, "han saram">>
    ELSE <<"generic">>

\* lines 124-138
PinnedCandidate(sur) ==
    [name_kr |-> <<"k:song", "k:wol", "k:seon">>,
     name_en |-> <<"Song", "Wil", "Seon">>,
     hanja |-> <<sur.hanja, "h:wol", "h:seon">>,
     family_name |-> [korean |-> sur.korean, hanja |-> sur.hanja,
                      meaning |-> "Pine tree"],
     given_name |-> << [syllable |-> <<"k:wol">>, hanja |-> "h:wol", meaning |-> "m:wol"],
                       [syllable |-> <<"k:seon">>, hanja |-> "h:seon", meaning |-> "m:seon"] >>,
     summary |-> <<"pinned summary">>]

RECURSIVE Join(_)
Join(strs) == IF strs = << >> THEN << >> ELSE Head(strs) \o Join(Tail(strs))

\* lines 172-176 with the given name joined in reverse order
CandidateReversed(sur, selected) ==
    LET two == Prefix(selected, NumSyllables)
        rev == [i \in 1..Len(two) |-> two[Len(two) + 1 - i]]
        given_name_kr == Join([i \in 1..Len(rev) |-> rev[i].syllable])
    IN  [name_kr |-> sur.korean \o given_name_kr,
         name_en |-> romanize_korean_name(sur.korean, given_name_kr),
         hanja |-> <<sur.hanja>> \o [i \in 1..Len(two) |-> two[i].hanja],
         family_name |-> [korean |-> sur.korean, hanja |-> sur.hanja,
                          meaning |-> get_surname_meaning(sur.hanja)],
         given_name |-> [i \in 1..Len(two) |->
                            [syllable |-> two[i].syllable, hanja |-> two[i].hanja,
                             meaning |-> two[i].meaning]],
         summary |-> generate_name_summary(two)]

\* lines 172-192
Candidate(sur, selected) ==
    LET two == Prefix(selected, NumSyllables)
        given_name_kr == Join([i \in 1..Len(two) |-> two[i].syllable])
        given_name_hanja == [i \in 1..Len(two) |-> two[i].hanja]
    IN  [name_kr |-> sur.korean \o given_name_kr,
         name_en |-> romanize_korean_name(sur.korean, given_name_kr),
         hanja |-> <<sur.hanja>> \o given_name_hanja,
         family_name |-> [korean |-> sur.korean, hanja |-> sur.hanja,
                          meaning |-> get_surname_meaning(sur.hanja)],
         given_name |-> [i \in 1..Len(two) |->
                            [syllable |-> two[i].syllable, hanja |-> two[i].hanja,
                             meaning |-> two[i].meaning]],
         summary |-> generate_name_summary(two)]

-----------------------------------------------------------------------------
(* generate_fortune (src/app.py:254-288) *)

cosmic_cookies == <<"cookie1", "cookie2", "cookie3", "cookie4", "cookie5">>
lucky_snacks == <<"snack1", "snack2", "snack3", "snack4", "snack5">>

\* lines 276-278 without the fall back to all keys
AvailableTagsNoFallback(table, tags) == {t \in Elems(tags) : t \in DOMAIN table}

\* lines 276-278
AvailableTags(table, tags) ==
    LET matching == {t \in Elems(tags) : t \in DOMAIN table}
    IN  IF matching = {} THEN DOMAIN table ELSE matching

NoFortune == [date |-> None, cosmic_cookie |-> "", lucky_snack |-> "", deeper_look |-> ""]

\* every way one call of generate_fortune(tags, date) can end
generate_fortune(table, tags, date) ==
    LET d == IF date = None THEN Today ELSE date
        available_tags == AvailableTags(table, tags)
    IN  IF available_tags = {}
        THEN {[exc |-> "IndexError", ret |-> NoFortune]}          \* line 280
        ELSE UNION {
               IF table[tag] = << >>
               THEN {[exc |-> "IndexError", ret |-> NoFortune]}   \* line 281
               ELSE {[exc |-> "",
                      ret |-> [date |-> d, cosmic_cookie |-> c, lucky_snack |-> s,
                               deeper_look |-> m]] :
                        c \in Elems(cosmic_cookies), s \in Elems(lucky_snacks),
                        m \in Elems(table[tag])}
               : tag \in available_tags}

-----------------------------------------------------------------------------
(* State *)

NoArgs == [op |-> "none", first_name |-> << >>, last_name |-> << >>,
           tags |-> << >>, date |-> None]
NoResult == [exc |-> "", names |-> << >>, fortune |-> NoFortune]

\* `surname` is a local of the call: each thread's frame holds its own
SurnameCellGlobal(t) == "t1"
SurnameCell(t) == t

\* the tables after the three load_json_data calls of lines 57-59
LoadTables(configs) ==
    \E c \in configs :
        /\ SYLLABLES_DATA = c[1]
        /\ FORTUNES_DATA = c[2]
        /\ SURNAMES_DATA = c[3]

NoCalls ==
    /\ pc = [t \in Threads |-> "idle"]
    /\ args = [t \in Threads |-> NoArgs]
    /\ surname = [t \in Threads |-> NoSurname]
    /\ gs = [t \in Threads |-> NoFrame]
    /\ candidates = [t \in Threads |-> << >>]
    /\ todo = [t \in Threads |-> 0]
    /\ sample = [t \in Threads |-> << >>]
    /\ chosen = [t \in Threads |-> << >>]
    /\ selected_syllables = [t \in Threads |-> << >>]
    /\ result = [t \in Threads |-> NoResult]

Init == LoadTables(TableConfigs) /\ NoCalls

by_tag == syllables_by_tag(SYLLABLES_DATA)

-----------------------------------------------------------------------------
(* generate_korean_names, statement by statement *)

\* lines 110-116: entry, options defaulted, tags read
CallNames(t, first_name, last_name, options) ==
    /\ pc[t] = "idle"
    /\ pc' = [pc EXCEPT ![t] = "get_surname"]
    /\ args' = [args EXCEPT ![t] =
                  [op |-> "names", first_name |-> first_name, last_name |-> last_name,
                   tags |-> Get(options, "tags", <<"bright", "wisdom">>),
                   date |-> None]]
    /\ UNCHANGED <<tables, surname, gs, candidates, todo, sample, chosen,
                   selected_syllables, result>>

\* line 119: surname = get_korean_surname(last_name)
ResolveSurname(t) ==
    /\ pc[t] = "get_surname"
    /\ \E o \in get_korean_surname(SURNAMES_DATA, args[t].last_name) :
         /\ gs' = [gs EXCEPT ![t] = o.frame]
         /\ IF o.exc = ""
            THEN /\ surname' = [surname EXCEPT ![SurnameCell(t)] = o.ret]
                 /\ pc' = [pc EXCEPT ![t] = "seed"]
                 /\ UNCHANGED result
            ELSE /\ pc' = [pc EXCEPT ![t] = "raised"]
                 /\ result' = [result EXCEPT ![t] = [NoResult EXCEPT !.exc = o.exc]]
                 /\ UNCHANGED surname
    /\ UNCHANGED <<tables, args, candidates, todo, sample, chosen, selected_syllables>>

\* lines 121-151: the pinned candidate or an empty list, the pool grouped
\* by tag, and the range of the candidate loop
Seed(t) ==
    /\ pc[t] = "seed"
    /\ LET seeded == IF IsPinned(args[t].first_name, args[t].last_name)
                     THEN << PinnedCandidate(surname[SurnameCell(t)]) >>
                     ELSE << >>
       IN  /\ candidates' = [candidates EXCEPT ![t] = seeded]
           /\ todo' = [todo EXCEPT ![t] = NumCandidates - Len(seeded)]
    /\ gs' = [gs EXCEPT ![t] = NoFrame]
    /\ pc' = [pc EXCEPT ![t] = "slot"]
    /\ UNCHANGED <<tables, args, surname, sample, chosen, selected_syllables, result>>

\* lines 151-155: next iteration; selected_syllables = [] and the tags sampled
SampleTags(t) ==
    /\ pc[t] = "slot"
    /\ todo[t] > 0
    /\ \E s \in Samples(args[t].tags) :
         /\ sample' = [sample EXCEPT ![t] = s]
         /\ chosen' = [chosen EXCEPT ![t] = s]
    /\ selected_syllables' = [selected_syllables EXCEPT ![t] = << >>]
    /\ pc' = [pc EXCEPT ![t] = "for_tag"]
    /\ UNCHANGED <<tables, args, surname, gs, candidates, todo, result>>

\* lines 155-164: one iteration of `for tag in random.sample(...)`
ForTag(t) ==
    /\ pc[t] = "for_tag"
    /\ chosen[t] # << >>
    /\ LET tag == Head(chosen[t])
       IN  IF tag \in DOMAIN by_tag
           THEN \E selected \in TagChoices(by_tag[tag]) :
                  selected_syllables' = [selected_syllables EXCEPT ![t] = Append(@, selected)]
           ELSE UNCHANGED selected_syllables
    /\ chosen' = [chosen EXCEPT ![t] = Tail(@)]
    /\ UNCHANGED <<tables, pc, args, surname, gs, candidates, todo, sample, result>>

\* the for loop is exhausted; its sample list is dropped
EndFor(t) ==
    /\ pc[t] = "for_tag"
    /\ chosen[t] = << >>
    /\ sample' = [sample EXCEPT ![t] = << >>]
    /\ pc' = [pc EXCEPT ![t] = "while"]
    /\ UNCHANGED <<tables, args, surname, gs, candidates, todo, chosen,
                   selected_syllables, result>>

\* the loop test of line 167 with an off-by-one bound
NeedsMoreLoose(selected) == Len(selected) < NumSyllables - 1
\* line 167: while len(selected_syllables) < 2
NeedsMore(selected) == Len(selected) < NumSyllables

\* lines 167-169: one iteration of the underflow loop
Underflow(t) ==
    /\ pc[t] = "while"
    /\ NeedsMore(selected_syllables[t])
    /\ IF DOMAIN by_tag = {}
       THEN /\ pc' = [pc EXCEPT ![t] = "raised"]        \* random.choice([])
            /\ result' = [result EXCEPT ![t] = [NoResult EXCEPT !.exc = "IndexError"]]
            /\ UNCHANGED selected_syllables
       ELSE /\ \E tag \in DOMAIN by_tag : \E s \in Elems(by_tag[tag]) :
                 selected_syllables' = [selected_syllables EXCEPT ![t] = Append(@, s)]
            /\ UNCHANGED <<pc, result>>
    /\ UNCHANGED <<tables, args, surname, gs, candidates, todo, sample, chosen>>

\* lines 171-194: build the candidate and append it
Create(t) ==
    /\ pc[t] = "while"
    /\ ~NeedsMore(selected_syllables[t])
    /\ candidates' = [candidates EXCEPT ![t] =
                        Append(@, Candidate(surname[SurnameCell(t)], selected_syllables[t]))]
    /\ todo' = [todo EXCEPT ![t] = @ - 1]
    /\ pc' = [pc EXCEPT ![t] = "slot"]
    /\ UNCHANGED <<tables, args, surname, gs, sample, chosen, selected_syllables, result>>

\* line 196: return candidates[:3]; the frame and its locals are gone
ReturnNames(t) ==
    /\ pc[t] = "slot"
    /\ todo[t] = 0
    /\ result' = [result EXCEPT ![t] =
                    [NoResult EXCEPT !.names = Prefix(candidates[t], NumCandidates)]]
    /\ pc' = [pc EXCEPT ![t] = "returned"]
    /\ candidates' = [candidates EXCEPT ![t] = << >>]
    /\ selected_syllables' = [selected_syllables EXCEPT ![t] = << >>]
    /\ UNCHANGED <<tables, args, surname, gs, todo, sample, chosen>>

-----------------------------------------------------------------------------
(* generate_fortune *)

\* line 254: entry
CallFortune(t, tags, date) ==
    /\ pc[t] = "idle"
    /\ pc' = [pc EXCEPT ![t] = "fortune"]
    /\ args' = [args EXCEPT ![t] = [NoArgs EXCEPT !.op = "fortune", !.tags = tags,
                                                  !.date = date]]
    /\ UNCHANGED <<tables, surname, gs, candidates, todo, sample, chosen,
                   selected_syllables, result>>

\* lines 256-288
Fortune(t) ==
    /\ pc[t] = "fortune"
    /\ \E o \in generate_fortune(FORTUNES_DATA, args[t].tags, args[t].date) :
         /\ result' = [result EXCEPT ![t] = [NoResult EXCEPT !.exc = o.exc,
                                                             !.fortune = o.ret]]
         /\ pc' = [pc EXCEPT ![t] = IF o.exc = "" THEN "returned" ELSE "raised"]
    /\ UNCHANGED <<tables, args, surname, gs, candidates, todo, sample, chosen,
                   selected_syllables>>

\* the caller has taken the result (or the exception): the thread is free again
Finish(t) ==
    /\ pc[t] \in {"returned", "raised"}
    /\ pc' = [pc EXCEPT ![t] = "idle"]
    /\ args' = [args EXCEPT ![t] = NoArgs]
    /\ surname' = [surname EXCEPT ![SurnameCell(t)] = NoSurname]
    /\ gs' = [gs EXCEPT ![t] = NoFrame]
    /\ candidates' = [candidates EXCEPT ![t] = << >>]
    /\ todo' = [todo EXCEPT ![t] = 0]
    /\ sample' = [sample EXCEPT ![t] = << >>]
    /\ chosen' = [chosen EXCEPT ![t] = << >>]
    /\ selected_syllables' = [selected_syllables EXCEPT ![t] = << >>]
    /\ result' = [result EXCEPT ![t] = NoResult]
    /\ UNCHANGED tables

-----------------------------------------------------------------------------
(* Specifications *)

\* one request at a time, every input
Next ==
    \E t \in MainThread :
        \/ \E f \in FirstNames, l \in LastNames, o \in OptionDicts : CallNames(t, f, l, o)
        \/ \E tl \in TagLists, d \in Dates : CallFortune(t, tl, d)
        \/ ResolveSurname(t)
        \/ Seed(t)
        \/ SampleTags(t)
        \/ ForTag(t)
        \/ EndFor(t)
        \/ Underflow(t)
        \/ Create(t)
        \/ ReturnNames(t)
        \/ Fortune(t)
        \/ Finish(t)

Spec == Init /\ [][Next]_vars

\* request threads running concurrently against fully loaded tables
ConcFirstNames == { <<"W","i","l","s","o","n">> }
ConcLastNames == { <<"s","m","i","t","h">>, <<"K","i","m">> }
ConcOptions == { [tags |-> <<"wisdom">>] }
ConcFortuneTags == { <<"ghost">> }

InitConc == LoadTables({<<SylTwoTags, FortFull, SurFull>>}) /\ NoCalls

NextConc ==
    \E t \in Threads :
        \/ \E f \in ConcFirstNames, l \in ConcLastNames, o \in ConcOptions :
              CallNames(t, f, l, o)
        \/ \E tl \in ConcFortuneTags, d \in {None} : CallFortune(t, tl, d)
        \/ ResolveSurname(t)
        \/ Seed(t)
        \/ SampleTags(t)
        \/ ForTag(t)
        \/ EndFor(t)
        \/ Underflow(t)
        \/ Create(t)
        \/ ReturnNames(t)
        \/ Fortune(t)
        \/ Finish(t)

SpecConc == InitConc /\ [][NextConc]_vars

-----------------------------------------------------------------------------
(* Properties *)

PoolEntries == Elems(SYLLABLES_DATA)

NamesCall(t) == args[t].op = "names"
FortuneCall(t) == args[t].op = "fortune"

\* the call of thread t failed inside get_korean_surname
RaisedInSurname(t) == pc[t] = "raised" /\ NamesCall(t) /\ gs[t].path # "none"

\* Count(x, s): how often x occurs in the list s
Count(x, s) == Cardinality({i \in 1..Len(s) : s[i] = x})

\* candidates held or returned by thread t
Held(t) == Elems(candidates[t]) \cup Elems(result[t].names)

\* c was built by the normal path from two pool entries and surname sur
Generated(c, sur) ==
    \E a \in PoolEntries, b \in PoolEntries :
        /\ c.name_kr = sur.korean \o a.syllable \o b.syllable
        /\ c.hanja = <<sur.hanja, a.hanja, b.hanja>>
        /\ c.family_name.korean = sur.korean
        /\ c.family_name.hanja = sur.hanja
        /\ c.given_name = << [syllable |-> a.syllable, hanja |-> a.hanja, meaning |-> a.meaning],
                             [syllable |-> b.syllable, hanja |-> b.hanja, meaning |-> b.meaning] >>

\* C1: with a non-empty syllable pool and a non-empty DEFAULT surname list,
\* generate_korean_names never raises and returns exactly 3 candidates,
\* for every first_name, last_name and tag list.
C1_AlwaysThree ==
    \A t \in Threads :
        ( /\ NamesCall(t)
          /\ SYLLABLES_DATA # << >>
          /\ "DEFAULT" \in DOMAIN SURNAMES_DATA
          /\ SURNAMES_DATA["DEFAULT"] # << >> )
        => /\ pc[t] # "raised"
           /\ pc[t] = "returned" => Len(result[t].names) = NumCandidates

\* C2: for upper(first) = WILSON and upper(last) = SMITH the result starts
\* with the fixed candidate (name_kr "송월선"), the other two candidates come
\* from the normal syllable path and the total is 3 (the call never fails
\* while the pool is non-empty); for every other pair all candidates come
\* from the normal path, none is seeded.
C2_PinnedFirst ==
    \A t \in Threads :
        NamesCall(t) =>
            LET pinned == /\ upper(args[t].first_name) = WILSON
                          /\ upper(args[t].last_name) = SMITH
                names == result[t].names
            IN  /\ (pinned /\ SYLLABLES_DATA # << >>) => pc[t] # "raised"
                /\ (pinned /\ pc[t] = "returned") =>
                      /\ Len(names) = 3
                      /\ names[1].name_kr = <<"k:song", "k:wol", "k:seon">>
                      /\ names[1].summary = <<"pinned summary">>
                      /\ names[1].given_name[1].hanja = "h:wol"
                      /\ names[1].given_name[2].hanja = "h:seon"
                      /\ \A i \in 2..3 : Generated(names[i], SongEntry)
                /\ (pinned /\ pc[t] \in {"slot", "for_tag", "while"}) =>
                      /\ candidates[t] # << >>
                      /\ candidates[t][1].summary = <<"pinned summary">>
                /\ ~pinned => \A c \in Held(t) : /\ Generated(c, surname[t])
                                                 /\ c.summary # <<"pinned summary">>

C2_Witness ==
    \E t \in Threads :
        /\ pc[t] = "returned"
        /\ args[t].first_name = <<"W","i","l","s","o","n">>
        /\ args[t].last_name = <<"s","m","i","t","h">>
        /\ Len(result[t].names) = 3
        /\ result[t].names[1].name_kr = <<"k:song", "k:wol", "k:seon">>
        /\ result[t].names[2].summary # <<"pinned summary">>

\* C3: for every last_name with upper(last_name) = SMITH, in any letter
\* case, get_korean_surname returns {korean 송, hanja 宋}, whatever the
\* draws and whatever the surname table holds (the empty table included).
C3_SmithFixed ==
    \A t \in Threads :
        (NamesCall(t) /\ upper(args[t].last_name) = SMITH /\ pc[t] # "get_surname")
        => /\ surname[t] = [korean |-> <<"k:song">>, hanja |-> "h:song"]
           /\ ~RaisedInSurname(t)

C3_Witness ==
    \E t \in Threads :
        /\ pc[t] = "seed"
        /\ args[t].last_name = <<"s","m","i","t","h">>
        /\ SURNAMES_DATA = EmptyDict
        /\ surname[t].korean = <<"k:song">>

\* C4: with a non-empty pool, once the for loop over the sampled tags is
\* done every step of the slot either appends one pool entry while fewer
\* than 2 are selected, or leaves the loop with exactly 2 selected entries,
\* all of the pool, and builds the candidate from them; it never raises.
\* The underflow loop hence ends after at most 2 iterations.
C4_SelectionEnds ==
    [][\A t \in Threads :
         ( /\ SYLLABLES_DATA # << >>
           /\ pc[t] = "while"
           /\ <<pc[t], selected_syllables[t]>> # <<pc'[t], selected_syllables'[t]>> )
         => \/ /\ Len(selected_syllables[t]) < 2
               /\ pc'[t] = "while"
               /\ \E s \in PoolEntries :
                     selected_syllables'[t] = Append(selected_syllables[t], s)
            \/ /\ Len(selected_syllables[t]) = 2
               /\ Elems(selected_syllables[t]) \subseteq PoolEntries
               /\ pc'[t] = "slot"
               /\ Len(candidates'[t]) = Len(candidates[t]) + 1
               /\ Len(candidates'[t][Len(candidates'[t])].given_name) = 2
      ]_vars

C4_Witness ==
    \E t \in Threads :
        /\ pc[t] = "while"
        /\ args[t].tags = <<"ghost", "ghost">>
        /\ Len(selected_syllables[t]) = 2
        /\ SYLLABLES_DATA = SylOneTag

\* C5: get_korean_surname never raises, whatever the surname table holds
\* (empty table, missing or empty list for the initial), and
\* generate_fortune never raises, even against an empty fortune table.
C5_FallbackNeverRaises ==
    \A t \in Threads :
        /\ ~RaisedInSurname(t)
        /\ (FortuneCall(t) /\ FORTUNES_DATA = EmptyDict) => pc[t] # "raised"

\* C6: against a non-empty fortune table whose message lists are all
\* non-empty generate_fortune never raises; deeper_look is a message of a
\* tag t, where t is an input tag that is a key of the table when some input
\* tag is one, and any key otherwise; a supplied date is returned unchanged.
C6_FortuneFallback ==
    \A t \in Threads :
        ( /\ FortuneCall(t)
          /\ DOMAIN FORTUNES_DATA # {}
          /\ \A k \in DOMAIN FORTUNES_DATA : FORTUNES_DATA[k] # << >> )
        => /\ pc[t] # "raised"
           /\ pc[t] = "returned" =>
                LET matching == Elems(args[t].tags) \cap DOMAIN FORTUNES_DATA
                    from == IF matching # {} THEN matching ELSE DOMAIN FORTUNES_DATA
                IN  /\ \E k \in from :
                          result[t].fortune.deeper_look \in Elems(FORTUNES_DATA[k])
                    /\ args[t].date # None => result[t].fortune.date = args[t].date

C6_Witness ==
    \E t \in Threads :
        /\ pc[t] = "returned"
        /\ FortuneCall(t)
        /\ args[t].tags = <<"ghost">>
        /\ args[t].date = "2024/01/01"
        /\ result[t].fortune.deeper_look = "f:w2"
        /\ result[t].fortune.date = "2024/01/01"

\* the list line 95 resolves for a non-empty, non-SMITH last_name
ResolvedList(last_name) ==
    IF UpperChar(last_name[1]) \in DOMAIN SURNAMES_DATA
    THEN SURNAMES_DATA[UpperChar(last_name[1])]
    ELSE SURNAMES_DATA["DEFAULT"]

\* What C7 states of a returned weighted selection, with `fallback` the
\* index returned when the draw exceeds every cumulative sum.
WeightedSelection(t, fallback) ==
    LET options == gs[t].options
        rand == gs[t].rand
        reached == {i \in 1..Len(options) : Cumulative(options, i) >= rand}
    IN  /\ options = ResolvedList(args[t].last_name)
        /\ rand \in 0..(TotalWeight(options) + 1)
        /\ IF reached # {}
           THEN \E i \in reached : /\ \A j \in reached : i <= j
                                   /\ surname[t] = options[i]
           ELSE surname[t] = options[fallback]
        /\ surname[t] \in Elems(options)
        /\ \A i \in 1..Len(options) :
              Weight(options[i]) > 0 =>
                 \E o \in get_korean_surname(SURNAMES_DATA, args[t].last_name) :
                    o.exc = "" /\ o.ret = options[i]

WeightedReturn(t) ==
    /\ pc[t] = "seed"
    /\ args[t].last_name # << >>
    /\ upper(args[t].last_name) # SMITH

\* C7 as claimed: ... if the draw exceeds all cumulative sums the LAST
\* entry of the list is returned.
C7_FallbackLast ==
    \A t \in Threads :
        WeightedReturn(t) => WeightedSelection(t, Len(gs[t].options))

\* C7: for a non-empty, non-SMITH last_name get_korean_surname resolves the
\* list of the upper-cased initial (DEFAULT when absent) and returns the
\* first entry whose cumulative weight is >= the draw; if the draw exceeds
\* all cumulative sums it returns the FIRST entry of the list.  The entry is
\* an element of the list, and every entry of positive weight is returned
\* for some draw.
C7_FallbackFirst ==
    \A t \in Threads :
        WeightedReturn(t) => WeightedSelection(t, 1)

C7_Witness ==
    \E t \in Threads :
        /\ WeightedReturn(t)
        /\ Len(gs[t].options) = 2
        /\ gs[t].rand > TotalWeight(gs[t].options)
        /\ surname[t] = gs[t].options[1]
        /\ surname[t] # gs[t].options[2]

\* C8: one surname per call: every candidate held or returned carries the
\* call's surname as family_name (korean and hanja), has 3 hanja of which
\* the first is the family hanja, has 2 given_name entries; a generated
\* candidate's name_kr is the surname followed by its two syllables in the
\* order they were selected; a call returns 3 such candidates.
C8_OneSurname ==
    \A t \in Threads :
        NamesCall(t) =>
            /\ \A c \in Held(t) :
                  /\ c.family_name.korean = surname[t].korean
                  /\ c.family_name.hanja = surname[t].hanja
                  /\ Len(c.hanja) = 3
                  /\ c.hanja[1] = c.family_name.hanja
                  /\ Len(c.given_name) = 2
                  /\ c.summary # <<"pinned summary">> =>
                        c.name_kr = surname[t].korean \o c.given_name[1].syllable
                                                      \o c.given_name[2].syllable
            /\ (pc[t] = "slot" /\ selected_syllables[t] # << >>) =>
                  LET c == candidates[t][Len(candidates[t])]
                  IN  /\ Len(selected_syllables[t]) = 2
                      /\ c.name_kr = surname[t].korean
                                       \o selected_syllables[t][1].syllable
                                       \o selected_syllables[t][2].syllable
                      /\ \A i \in 1..2 :
                            c.given_name[i].syllable = selected_syllables[t][i].syllable
            /\ pc[t] = "returned" =>
                  /\ Len(result[t].names) = 3
                  /\ \A i, j \in 1..3 :
                        result[t].names[i].family_name = result[t].names[j].family_name

C8_Witness ==
    \E t \in Threads :
        /\ pc[t] = "returned"
        /\ args[t].last_name = <<"K","i","m">>
        /\ Len(result[t].names) = 3
        /\ \A i \in 1..3 : result[t].names[i].family_name.hanja = "h:kang"
        /\ result[t].names[1].name_kr = <<"k:kang", "k:myung", "k:ji">>
        /\ result[t].names[2].name_kr = <<"k:kang", "k:ji", "k:myung">>

Locals(u) == <<pc[u], args[u], surname[u], gs[u], candidates[u], todo[u], sample[u],
               chosen[u], selected_syllables[u], result[u]>>

====
